---- MODULE Spec2Model ----
(***************************************************************************)
(* A model of manhattan.py: the argument check (process_args), the table   *)
(* filter (filter_sumstats), the variant selection (get_df2plot), the      *)
(* chromosome layout (get_chr_df), the coordinate mapping (add_coords) and *)
(* the __main__ pipeline that runs them and writes the image.              *)
(*                                                                         *)
(* Conventions of the model:                                               *)
(*  - a SNP id "rs<k>" is the number k; np.unique sorts ids as strings,    *)
(*    so that rs10 comes before rs2;                                       *)
(*  - a float is a binary64 value, or inf, or nan ([k, s, m, e]), every    *)
(*    operation rounded to nearest; division by zero gives inf or nan as   *)
(*    numpy's does;                                                        *)
(*  - a p-value is [kind, e]: kind "pos" is the value 10^(-e), so that     *)
(*    -log10 of it is e; kinds "nan", "neg" and "zero" are a missing, a    *)
(*    negative and a zero p-value;                                         *)
(*  - a call that may raise returns [ok, val, exc].                        *)
(***************************************************************************)
EXTENDS Integers, Sequences, FiniteSets, TLC

VARIABLES pc, args, fs, sumstat_dfs, dfs2plot, chr_df, mapped, out_written, exc

vars == <<pc, args, fs, sumstat_dfs, dfs2plot, chr_df, mapped, out_written, exc>>

Ok(v) == [ok |-> TRUE, val |-> v, exc |-> "none"]

Raise(e) == [ok |-> FALSE, val |-> <<>>, exc |-> e]

(***************************************************************************)
(* Naturals of any size, for the 53-bit significands of binary64 and the   *)
(* exact sums and products that are rounded to them: a natural is the      *)
(* sequence of its digits in base 2^15, least significant first, without   *)
(* a leading zero (0 is the empty sequence).                               *)
(***************************************************************************)
Abs(x) == IF x < 0 THEN -x ELSE x

Sign(x) == IF x < 0 THEN -1 ELSE IF x = 0 THEN 0 ELSE 1

Base == 2 ^ 15

RECURSIVE BitLen(_)
\* the number of binary digits of the integer x >= 0
BitLen(x) == IF x = 0 THEN 0 ELSE 1 + BitLen(x \div 2)

RECURSIVE BNorm(_)
BNorm(a) ==
    IF a = <<>> THEN <<>>
    ELSE IF a[Len(a)] = 0 THEN BNorm(SubSeq(a, 1, Len(a) - 1))
    ELSE a

RECURSIVE BOfInt(_)
BOfInt(x) == IF x = 0 THEN <<>> ELSE <<x % Base>> \o BOfInt(x \div Base)

RECURSIVE BToInt(_)
\* the integer of a natural below 2^31
BToInt(a) == IF a = <<>> THEN 0 ELSE a[1] + Base * BToInt(Tail(a))

BRest(a) == IF a = <<>> THEN <<>> ELSE Tail(a)

BLow(a) == IF a = <<>> THEN 0 ELSE a[1]

RECURSIVE BAddC(_, _, _)
BAddC(a, b, c) ==
    IF a = <<>> /\ b = <<>> THEN (IF c = 0 THEN <<>> ELSE <<c>>)
    ELSE LET x == BLow(a) + BLow(b) + c
         IN  <<x % Base>> \o BAddC(BRest(a), BRest(b), x \div Base)

BAdd(a, b) == BAddC(a, b, 0)

RECURSIVE BSubC(_, _, _)
BSubC(a, b, c) ==
    IF a = <<>> THEN <<>>
    ELSE LET x == a[1] - BLow(b) - c
         IN  <<IF x < 0 THEN x + Base ELSE x>>
             \o BSubC(Tail(a), BRest(b), IF x < 0 THEN 1 ELSE 0)

\* a - b for a >= b
BSub(a, b) == BNorm(BSubC(a, b, 0))

RECURSIVE BCmpAt(_, _, _)
BCmpAt(a, b, i) ==
    IF i = 0 THEN 0
    ELSE IF a[i] < b[i] THEN -1
    ELSE IF a[i] > b[i] THEN 1
    ELSE BCmpAt(a, b, i - 1)

\* -1, 0 or 1 as a < b, a = b or a > b
BCmp(a, b) ==
    IF Len(a) < Len(b) THEN -1
    ELSE IF Len(a) > Len(b) THEN 1
    ELSE BCmpAt(a, b, Len(a))

RECURSIVE BMulC(_, _, _)
BMulC(a, k, c) ==
    IF a = <<>> THEN BOfInt(c)
    ELSE LET x == a[1] * k + c
         IN  <<x % Base>> \o BMulC(Tail(a), k, x \div Base)

\* a * k for an integer 0 <= k <= 2^15
BMulSmall(a, k) == IF k = 0 THEN <<>> ELSE BMulC(a, k, 0)

RECURSIVE BDivAt(_, _, _, _)
BDivAt(a, d, i, r) ==
    IF i = 0 THEN [q |-> <<>>, r |-> r]
    ELSE LET x == r * Base + a[i]
             rest == BDivAt(a, d, i - 1, x % d)
         IN  [q |-> Append(rest.q, x \div d), r |-> rest.r]

\* quotient and remainder of a by an integer 0 < d <= 2^15
BDivSmall(a, d) ==
    LET z == BDivAt(a, d, Len(a), 0)
    IN  [q |-> BNorm(z.q), r |-> z.r]

\* a * 2^k
BShl(a, k) ==
    IF a = <<>> THEN <<>>
    ELSE [j \in 1..(k \div 15) |-> 0] \o BMulSmall(a, 2 ^ (k % 15))

\* a div 2^k, and whether a bit was shifted out (sticky)
BShr(a, k) ==
    LET w == IF k \div 15 > Len(a) THEN Len(a) ELSE k \div 15
        z == BDivSmall(SubSeq(a, w + 1, Len(a)), 2 ^ (k % 15))
    IN  [q |-> z.q, sticky |-> z.r # 0 \/ \E j \in 1..w : a[j] # 0]

BBitLen(a) == IF a = <<>> THEN 0 ELSE 15 * (Len(a) - 1) + BitLen(a[Len(a)])

BOdd(a) == a # <<>> /\ a[1] % 2 = 1

(***************************************************************************)
(* Floats: binary64 values.  A finite value is s * m * 2^e with sign s and *)
(* a significand m of exactly 53 bits (0 is s = 0, m = 0, e = 0); results  *)
(* are rounded to nearest, ties to even, as the hardware does.  Overflow,  *)
(* subnormal values and the sign of zero are not modelled.                 *)
(***************************************************************************)
NaN == [k |-> "nan", s |-> 0, m |-> <<>>, e |-> 0]

Inf(s) == [k |-> "inf", s |-> s, m |-> <<>>, e |-> 0]

Zero == [k |-> "num", s |-> 0, m |-> <<>>, e |-> 0]

\* the float nearest s * (N + t) * 2^e, where 0 < t < 1 if sticky, else t = 0
\* (a sticky N has more than 53 bits)
Round(s, N, e, sticky) ==
    IF N = <<>> THEN Zero
    ELSE LET L == BBitLen(N)
         IN  IF L <= 53
             THEN [k |-> "num", s |-> s, m |-> BShl(N, 53 - L), e |-> e - (53 - L)]
             ELSE LET h == BShr(N, L - 54)
                      q == BShr(h.q, 1).q
                      up == BOdd(h.q) /\ (h.sticky \/ sticky \/ BOdd(q))
                      r == IF up THEN BAdd(q, <<1>>) ELSE q
                  IN  IF BBitLen(r) = 54
                      THEN [k |-> "num", s |-> s, m |-> BShr(r, 1).q, e |-> e + (L - 53) + 1]
                      ELSE [k |-> "num", s |-> s, m |-> r, e |-> e + (L - 53)]

\* n/d for integers n and d (|d| <= 2^15) as numpy divides: x/0 is inf, 0/0 is
\* nan, never an exception; otherwise the float nearest the quotient
FDiv(n, d) ==
    IF d = 0 THEN (IF n = 0 THEN NaN ELSE Inf(Sign(n)))
    ELSE IF n = 0 THEN Zero
    ELSE LET z == BDivSmall(BShl(BOfInt(Abs(n)), 70), Abs(d))
         IN  Round(Sign(n) * Sign(d), z.q, -70, z.r # 0)

\* float("n/d" written as a decimal), d a power of ten: the nearest float
Num(n, d) == FDiv(n, d)

Int2F(i) == FDiv(i, 1)

FNegate(a) == IF a.k = "nan" THEN NaN ELSE [a EXCEPT !.s = -a.s]

\* the sum of two finite values before it is rounded: [s, m, e] with a
\* natural m of any size
ExactSum(a, b) ==
    IF a.s = 0 THEN [s |-> b.s, m |-> b.m, e |-> b.e]
    ELSE IF b.s = 0 THEN [s |-> a.s, m |-> a.m, e |-> a.e]
    ELSE LET e0 == IF a.e < b.e THEN a.e ELSE b.e
             A == BShl(a.m, a.e - e0)
             B == BShl(b.m, b.e - e0)
             c == BCmp(A, B)
         IN  IF a.s = b.s THEN [s |-> a.s, m |-> BAdd(A, B), e |-> e0]
             ELSE IF c = 0 THEN [s |-> 0, m |-> <<>>, e |-> 0]
             ELSE IF c > 0 THEN [s |-> a.s, m |-> BSub(A, B), e |-> e0]
             ELSE [s |-> b.s, m |-> BSub(B, A), e |-> e0]

FAdd(a, b) ==
    IF a.k = "nan" \/ b.k = "nan" THEN NaN
    ELSE IF a.k = "inf" /\ b.k = "inf" THEN (IF a.s = b.s THEN a ELSE NaN)
    ELSE IF a.k = "inf" THEN a
    ELSE IF b.k = "inf" THEN b
    ELSE LET x == ExactSum(a, b) IN Round(x.s, x.m, x.e, FALSE)

FSub(a, b) == FAdd(a, FNegate(b))

\* a * i for a float a and an integer i (|i| <= 2^15), itself a float
FMul(a, i) ==
    IF a.k = "nan" THEN NaN
    ELSE IF a.k = "inf" THEN (IF i = 0 THEN NaN ELSE Inf(a.s * Sign(i)))
    ELSE IF a.s = 0 \/ i = 0 THEN Zero
    ELSE Round(a.s * Sign(i), BMulSmall(a.m, Abs(i)), a.e, FALSE)

\* IEEE comparisons: every comparison with nan is false
FLt(a, b) ==
    IF a.k = "nan" \/ b.k = "nan" THEN FALSE
    ELSE IF a.k = "inf" THEN a.s < 0 /\ ~(b.k = "inf" /\ b.s < 0)
    ELSE IF b.k = "inf" THEN b.s > 0
    ELSE FSub(a, b).s < 0

FEq(a, b) == a.k # "nan" /\ b.k # "nan" /\ a = b

FLe(a, b) == FLt(a, b) \/ FEq(a, b)

\* int(x): truncation toward zero; nan and inf raise
IntOf(a) ==
    IF a.k = "nan" THEN Raise("ValueError_int")
    ELSE IF a.k = "inf" THEN Raise("OverflowError_int")
    ELSE IF a.e >= 0 THEN Ok(a.s * BToInt(BShl(a.m, a.e)))
    ELSE Ok(a.s * BToInt(BShr(a.m, -a.e).q))

(***************************************************************************)
(* Sequences.                                                              *)
(***************************************************************************)
Range(s) == {s[j] : j \in 1..Len(s)}

RECURSIVE SelectIn(_, _)
\* the elements of s that are in set S, in the order of s
SelectIn(s, S) ==
    IF s = <<>> THEN <<>>
    ELSE IF Head(s) \in S THEN <<Head(s)>> \o SelectIn(Tail(s), S)
    ELSE SelectIn(Tail(s), S)

RECURSIVE Digits(_)
\* the decimal digits of k > 0, the first digit first
Digits(k) == IF k < 10 THEN <<k>> ELSE Append(Digits(k \div 10), k % 10)

RECURSIVE StrLess(_, _)
\* s < t as Python compares strings: by the first position where they differ,
\* a proper prefix before the longer string
StrLess(s, t) ==
    IF t = <<>> THEN FALSE
    ELSE IF s = <<>> THEN TRUE
    ELSE IF Head(s) # Head(t) THEN Head(s) < Head(t)
    ELSE StrLess(Tail(s), Tail(t))

\* "rs<a>" <= "rs<b>" as strings
IdLe(a, b) == a = b \/ StrLess(Digits(a), Digits(b))

RECURSIVE SortedSeq(_)
\* the ids of S in increasing order of their strings
SortedSeq(S) ==
    IF S = {} THEN <<>>
    ELSE LET m == CHOOSE x \in S : \A y \in S : IdLe(x, y)
         IN  <<m>> \o SortedSeq(S \ {m})

RECURSIVE SumSeq(_)
SumSeq(s) == IF s = <<>> THEN 0 ELSE Head(s) + SumSeq(Tail(s))

(***************************************************************************)
(* Files.  fs maps a file name to what the file holds:                     *)
(*   [kind |-> "missing"]                 no such file                     *)
(*   [kind |-> "ids", rows]               one headerless column of ids     *)
(*   [kind |-> "annot", rows]             headerless columns id, label     *)
(*   [kind |-> "lead", rows]              columns LEAD_SNP, is_locus_lead  *)
(*   [kind |-> "indep", rows]             column INDEP_SNP                 *)
(*   [kind |-> "sumstats", sep, cols, rows]  a summary statistics table    *)
(***************************************************************************)
isfile(f) == f \in DOMAIN fs /\ fs[f].kind # "missing"

\* pd.read_table(fname, header=None).values has two dimensions for a file of
\* several columns; np.concatenate with a one-dimensional array then raises
Is2D(fname) == fname # "NA" /\ fs[fname].kind \in {"annot", "lead", "sumstats"}

\* the exceptions of the model, by the place that raises them
MissingFileExc == {"AssertionError_isfile", "FileNotFoundError"}

MalformedExc == {"ValueError_usecols", "AttributeError_is_locus_lead",
                 "KeyError_INDEP_SNP", "ValueError_ndim"}

CountExc == {"AssertionError_len", "IndexError_option"}

\* the values of the single column of an id file; of a file of several columns
\* the model keeps none, as get_df2plot raises on it (Is2D) before they are
\* used.  (A file with a header of one column is not passed as an id file.)
get_snp_ids(fname) ==
    IF fname = "NA" THEN Ok(<<>>)
    ELSE IF ~isfile(fname) THEN Raise("FileNotFoundError")
    ELSE CASE fs[fname].kind = "ids" -> Ok(fs[fname].rows)
           [] Is2D(fname) -> Ok(<<>>)

get_lead(fname) ==
    IF fname = "NA" THEN Ok(<<>>)
    ELSE IF ~isfile(fname) THEN Raise("FileNotFoundError")
    ELSE IF fs[fname].kind # "lead" THEN Raise("AttributeError_is_locus_lead")
    ELSE LET lead == SelectSeq(fs[fname].rows, LAMBDA r : r.is_locus_lead)
         IN  Ok([j \in 1..Len(lead) |-> lead[j].LEAD_SNP])

get_indep_sig(fname) ==
    IF fname = "NA" THEN Ok(<<>>)
    ELSE IF ~isfile(fname) THEN Raise("FileNotFoundError")
    ELSE IF fs[fname].kind # "indep" THEN Raise("KeyError_INDEP_SNP")
    ELSE Ok(fs[fname].rows)

\* val is <<ids, labels>>; a file of one column gives every label as NaN.
\* (Only annotation files and id files are passed as annotation files.)
get_annot(fname) ==
    IF fname = "NA" THEN Ok(<<<<>>, <<>>>>)
    ELSE IF ~isfile(fname) THEN Raise("FileNotFoundError")
    ELSE LET rows == fs[fname].rows
         IN  CASE fs[fname].kind = "annot" ->
                    Ok(<<[j \in 1..Len(rows) |-> rows[j].snp],
                         [j \in 1..Len(rows) |-> rows[j].label]>>)
               [] fs[fname].kind = "ids" ->
                    Ok(<<rows, [j \in 1..Len(rows) |-> "nan"]>>)

(***************************************************************************)
(* get_df2plot                                                             *)
(***************************************************************************)
\* np.unique of the concatenation: sorted, without duplicates
NpUnique(s) == SortedSeq(Range(s))

\* df.index.intersection(other): the common ids in the order of df.index
IndexIntersection(index, other) == SelectIn(index, Range(other))

\* w = -np.log10(df[pval_col].values)
NegLog10(pval) == pval.e

Weights(df) == [j \in 1..Len(df) |-> NegLog10(df[j].pval)]

\* n = int(downsample_frac*len(df)): the rounded product, truncated
SampleSize(df, frac) == IntOf(FMul(frac, Len(df)))

\* np.random.choice(index, size, replace=False, p=w/sum(w)) raises when there is
\* nothing to draw from, when sum(w) is 0 (p is nan), when a normalised weight is
\* negative, and when size exceeds the population or its non-zero weights
ChoiceRaises(index, size, w) ==
    LET sum == SumSeq(w)
    IN  \/ Len(index) = 0
        \/ sum = 0
        \/ \E j \in 1..Len(w) : w[j] * sum < 0
        \/ size < 0
        \/ size > Len(index)
        \/ Cardinality({j \in 1..Len(w) : w[j] # 0}) < size

RECURSIVE KSubsets(_, _)
\* the subsets of S of k elements
KSubsets(S, k) ==
    IF k = 0 THEN {{}}
    ELSE IF Cardinality(S) < k THEN {}
    ELSE IF Cardinality(S) = k THEN {S}
    ELSE LET x == CHOOSE y \in S : TRUE
         IN  KSubsets(S \ {x}, k) \cup {T \cup {x} : T \in KSubsets(S \ {x}, k - 1)}

\* what the draw may return: size distinct ids of non-zero weight
ChoiceResults(index, size, w) ==
    KSubsets({index[j] : j \in {x \in 1..Len(w) : w[x] # 0}}, size)

\* df2plot.loc[keys, "annot"] = value (value an array): the set of outcomes, each
\* the labels by id or a ValueError.  Values go to the keys by position.  With no
\* key and several values pandas raises or does nothing, by its version.
LocSetAnnot(keys, value, nrows) ==
    IF Len(keys) = Len(value)
    THEN {Ok([j \in 1..Len(keys) |-> [snp |-> keys[j], label |-> value[j]]])}
    ELSE IF Len(keys) = 0 /\ Len(value) = 1 THEN {Ok(<<>>)}
    ELSE IF Len(keys) = 0 /\ Len(value) = nrows
         THEN {Ok(<<>>), Raise("ValueError_setitem")}
    ELSE {Raise("ValueError_setitem")}

RowOf(df, id) == df[CHOOSE j \in 1..Len(df) : df[j].id = id]

AnnotOf(assigned, id) ==
    IF \E j \in 1..Len(assigned) : assigned[j].snp = id
    THEN assigned[CHOOSE j \in 1..Len(assigned) : assigned[j].snp = id].label
    ELSE ""

\* mutant: the annotated ids are left out of the ids to keep
Snps2keepNoAnnot(outlined_snp_ids, bold_snp_ids, snp_sample, annot_snp_ids) ==
    SortedSeq(Range(outlined_snp_ids) \cup Range(bold_snp_ids) \cup snp_sample)

\* snps2keep: the sorted union of the forced ids and the sample
Snps2keep(outlined_snp_ids, bold_snp_ids, snp_sample, annot_snp_ids) ==
    SortedSeq(Range(outlined_snp_ids) \cup Range(bold_snp_ids)
              \cup snp_sample \cup Range(annot_snp_ids))

\* the rows of df2plot with their three added columns
MarkRows(df, snps2keep, outlined_snp_ids, bold_snp_ids, assigned) ==
    [j \in 1..Len(snps2keep) |->
        LET r == RowOf(df, snps2keep[j])
        IN  [id |-> r.id, chr |-> r.chr, bp |-> r.bp, pval |-> r.pval,
             outlined |-> snps2keep[j] \in Range(outlined_snp_ids),
             bold |-> snps2keep[j] \in Range(bold_snp_ids),
             annot |-> AnnotOf(assigned, snps2keep[j])]]

\* the set of outcomes of get_df2plot: one per draw of the sample
get_df2plot(df, outlined_snps_f, bold_snps_f, lead_snps_f, indep_snps_f, annot_f, downsample_frac) ==
    LET ro == get_snp_ids(outlined_snps_f)
        rb == get_snp_ids(bold_snps_f)
        rl == get_lead(lead_snps_f)
        ri == get_indep_sig(indep_snps_f)
        ra == get_annot(annot_f)
        index == [j \in 1..Len(df) |-> df[j].id]
        n == SampleSize(df, downsample_frac)
        w == Weights(df)
    IN  IF ~ro.ok THEN {Raise(ro.exc)}
        ELSE IF ~rb.ok THEN {Raise(rb.exc)}
        ELSE IF ~rl.ok THEN {Raise(rl.exc)}
        ELSE IF ~ri.ok THEN {Raise(ri.exc)}
        ELSE IF ~ra.ok THEN {Raise(ra.exc)}
        ELSE IF Is2D(outlined_snps_f) \/ Is2D(bold_snps_f) THEN {Raise("ValueError_ndim")}
        ELSE IF ~n.ok THEN {Raise(n.exc)}
        ELSE IF ChoiceRaises(index, n.val, w) THEN {Raise("ValueError_choice")}
        ELSE LET outlined_snp_ids ==
                     IndexIntersection(index, NpUnique(ro.val \o rl.val))
                 bold_snp_ids ==
                     IndexIntersection(index, NpUnique(rb.val \o ri.val))
                 annot_snp_ids == IndexIntersection(index, ra.val[1])
             IN  UNION {
                   LET snps2keep == Snps2keep(outlined_snp_ids, bold_snp_ids,
                                              snp_sample, annot_snp_ids)
                   IN  {IF a.ok
                        THEN Ok(MarkRows(df, snps2keep, outlined_snp_ids,
                                         bold_snp_ids, a.val))
                        ELSE a :
                        a \in LocSetAnnot(annot_snp_ids, ra.val[2], Len(snps2keep))}
                   : snp_sample \in ChoiceResults(index, n.val, w)}

(***************************************************************************)
(* process_args                                                            *)
(***************************************************************************)
\* the options argparse reads as lists (nargs="+")
ListOpts == {"sumstats", "sep", "snp", "chr", "bp", "p", "outlined", "bold",
             "annot", "lead", "indep", "transparency", "downsample_frac"}

\* the options whose files process_args asserts to exist or to be "NA"
FileOpts == <<"outlined", "bold", "lead", "indep", "annot">>

\* the options whose length process_args asserts to be n
CheckedOpts == {"sep", "snp", "chr", "bp", "p", "downsample_frac"}

\* str(x) of a chromosome number
Str(x) == <<"1", "2", "3", "4", "5", "6", "7", "8", "9", "10", "11", "12", "13",
            "14", "15", "16", "17", "18", "19", "20", "21", "22">>[x]

\* arg_val*n for a list of one value when n > 1, else the list as it is
Broadcast(arg_val, n) ==
    IF Len(arg_val) < n /\ Len(arg_val) = 1
    THEN [j \in 1..n |-> arg_val[1]]
    ELSE arg_val

\* one comma-separated piece of --chr2use: "lo-hi" is [kind |-> "range", lo, hi],
\* a piece with a "-" that int() cannot read is [kind |-> "bad"], any other piece
\* is [kind |-> "label", label]
ChrPiece(a) ==
    IF a.kind = "range" THEN Ok([j \in 1..(a.hi - a.lo + 1) |-> Str(a.lo + j - 1)])
    ELSE IF a.kind = "label" THEN Ok(<<a.label>>)
    ELSE Raise("ValueError_chr2use")

RECURSIVE ParseChr2use(_)
ParseChr2use(pieces) ==
    IF pieces = <<>> THEN Ok(<<>>)
    ELSE LET h == ChrPiece(Head(pieces))
             t == ParseChr2use(Tail(pieces))
         IN  IF ~h.ok THEN h ELSE IF ~t.ok THEN t ELSE Ok(h.val \o t.val)

\* mutant: only the sumstat files are checked to exist
FilesExistSumstatsOnly(a) == \A j \in 1..Len(a.sumstats) : isfile(a.sumstats[j])

FilesExist(a) ==
    /\ \A j \in 1..Len(a.sumstats) : isfile(a.sumstats[j])
    /\ \A k \in 1..Len(FileOpts) : \A j \in 1..Len(a[FileOpts[k]]) :
          isfile(a[FileOpts[k]][j]) \/ a[FileOpts[k]][j] = "NA"

LengthsOk(a, n) == \A o \in CheckedOpts : Len(a[o]) = n

\* process_args changes args in place: val is args as the call leaves it, also
\* when it raises (the lists are broadcast before chr2use is read, and chr2use
\* is replaced before the lengths are asserted)
process_args(a) ==
    LET n == Len(a.sumstats)
        b == [o \in DOMAIN a |-> IF o \in ListOpts THEN Broadcast(a[o], n) ELSE a[o]]
        chr2use == ParseChr2use(a.chr2use)
    IN  IF ~FilesExist(a) THEN [Raise("AssertionError_isfile") EXCEPT !.val = a]
        ELSE IF ~chr2use.ok THEN [chr2use EXCEPT !.val = b]
        ELSE IF ~LengthsOk(b, n)
             THEN [Raise("AssertionError_len") EXCEPT
                     !.val = [b EXCEPT !.chr2use = chr2use.val]]
        ELSE Ok([b EXCEPT !.chr2use = chr2use.val])

(***************************************************************************)
(* filter_sumstats                                                         *)
(***************************************************************************)
\* pd.read_table(usecols=cols2use, sep=sep) raises when a column is not in the
\* header as split by sep
ReadableAs(f, sep, snpid_col, pval_col, chr_col, bp_col) ==
    /\ fs[f].kind = "sumstats"
    /\ fs[f].sep = sep
    /\ fs[f].cols = [snp |-> snpid_col, p |-> pval_col, chr |-> chr_col, bp |-> bp_col]

\* df[pval_col] > 0
Positive(pval) == pval.kind = "pos"

filter_sumstats(sumstats_f, sep, snpid_col, pval_col, chr_col, bp_col, chr2use) ==
    IF ~isfile(sumstats_f) THEN Raise("FileNotFoundError")
    ELSE IF ~ReadableAs(sumstats_f, sep, snpid_col, pval_col, chr_col, bp_col)
         THEN Raise("ValueError_usecols")
    ELSE LET df == fs[sumstats_f].rows
             defined == SelectSeq(df, LAMBDA r : r.pval.kind # "nan")
             within == SelectSeq(defined, LAMBDA r : r.chr \in Range(chr2use))
         IN  Ok(SelectSeq(within, LAMBDA r : Positive(r.pval)))

(***************************************************************************)
(* get_chr_df                                                              *)
(***************************************************************************)
SetMin(S) == CHOOSE x \in S : \A y \in S : x <= y

SetMax(S) == CHOOSE x \in S : \A y \in S : x >= y

\* the positions of table df on chromosome c
BpOn(df, c) == {df[j].bp : j \in {y \in 1..Len(df) : df[y].chr = c}}

\* min_df.min(axis=1): the least of the tables' minima, a table without the
\* chromosome (NaN) skipped
ChrMin(dfs, c) ==
    SetMin({SetMin(BpOn(dfs[i], c)) : i \in {x \in 1..Len(dfs) : BpOn(dfs[x], c) # {}}})

ChrMax(dfs, c) ==
    SetMax({SetMax(BpOn(dfs[i], c)) : i \in {x \in 1..Len(dfs) : BpOn(dfs[x], c) # {}}})

\* the chromosomes of chr2use that some table has, in the order of chr2use
UniqueChr(dfs, chr2use) ==
    SelectIn(chr2use, UNION {{dfs[i][j].chr : j \in 1..Len(dfs[i])} : i \in 1..Len(dfs)})

RECURSIVE SumSkipNa(_, _)
SumSkipNa(x, i) ==
    IF i = 0 THEN Zero
    ELSE IF x[i].k = "nan" THEN SumSkipNa(x, i - 1)
    ELSE FAdd(SumSkipNa(x, i - 1), x[i])

\* Series.cumsum(): NaN where the value is NaN, elsewhere the sum of the others
\* so far, added one by one from the first and rounded at each step
CumSum(x) == [i \in 1..Len(x) |-> IF x[i].k = "nan" THEN NaN ELSE SumSkipNa(x, i)]

\* mutant: the span is divided by the chromosome's max, as a size from position 0
RelSizeByMax(max, min, ref_unit_size) == FDiv(max - min, max)

\* (chr_df["max"] - chr_df["min"])/ref_unit_size
RelSize(max, min, ref_unit_size) == FDiv(max - min, ref_unit_size)

\* mutant: the gap is counted from 1
StartOfOneBased(cumsum, rel_size, between_chr_gap, ind) ==
    FAdd(FSub(cumsum, rel_size), FMul(between_chr_gap, ind + 1))

\* chr_df["rel_size"].cumsum() - chr_df["rel_size"] + between_chr_gap*chr_df["ind"]
StartOf(cumsum, rel_size, between_chr_gap, ind) ==
    FAdd(FSub(cumsum, rel_size), FMul(between_chr_gap, ind))

get_chr_df(dfs, between_chr_gap, chr2use) ==
    LET unique_chr == UniqueChr(dfs, chr2use)
        min == [i \in 1..Len(unique_chr) |-> ChrMin(dfs, unique_chr[i])]
        max == [i \in 1..Len(unique_chr) |-> ChrMax(dfs, unique_chr[i])]
        ref_unit_size == max[1] - min[1]
        rel_size == [i \in 1..Len(unique_chr) |-> RelSize(max[i], min[i], ref_unit_size)]
        cumsum == CumSum(rel_size)
    IN  IF unique_chr = <<>> THEN Raise("IndexError_index0")
        ELSE Ok([i \in 1..Len(unique_chr) |->
                  [chr |-> unique_chr[i], min |-> min[i], max |-> max[i],
                   ind |-> i - 1, rel_size |-> rel_size[i],
                   start |-> StartOf(cumsum[i], rel_size[i], between_chr_gap, i - 1)]])

(***************************************************************************)
(* add_coords                                                              *)
(***************************************************************************)
HasChr(layout, c) == \E j \in 1..Len(layout) : layout[j].chr = c

Loc(layout, c) == layout[CHOOSE j \in 1..Len(layout) : layout[j].chr = c]

\* (df2plot[bp_col] - chr_min)/chr_df.loc[chr_df.index[0],"max"] + chr_start
XCoord(bp, chr_min, chr_start, layout) ==
    FAdd(FDiv(bp - chr_min, layout[1].max), chr_start)

add_coords(df2plot, layout) ==
    IF \E j \in 1..Len(df2plot) : ~HasChr(layout, df2plot[j].chr)
    THEN Raise("KeyError_chr")
    ELSE Ok([j \in 1..Len(df2plot) |->
              LET r == df2plot[j]
                  c == Loc(layout, r.chr)
              IN  [id |-> r.id, chr |-> r.chr, bp |-> r.bp, pval |-> r.pval,
                   outlined |-> r.outlined, bold |-> r.bold, annot |-> r.annot,
                   x_coord |-> XCoord(r.bp, c.min, c.start, layout),
                   log10p |-> NegLog10(r.pval)]])

(***************************************************************************)
(* __main__: one action per call of the pipeline.  pc is the place in      *)
(* __main__, exc the exception that ended the run and the place it was     *)
(* raised at, mapped the number of tables add_coords has been applied to,  *)
(* out_written whether plt.savefig(args.out) has run.  Of the figure only  *)
(* the axis limits are modelled.                                           *)
(***************************************************************************)
NoExc == [type |-> "none", at |-> "none"]

Fail(type) ==
    /\ pc' = "failed"
    /\ exc' = [type |-> type, at |-> pc]

ProcessArgs ==
    /\ pc = "process_args"
    /\ LET r == process_args(args)
       IN  /\ args' = r.val
           /\ IF r.ok
              THEN /\ pc' = "filter"
                   /\ exc' = exc
              ELSE Fail(r.exc)
    /\ UNCHANGED <<fs, sumstat_dfs, dfs2plot, chr_df, mapped, out_written>>

\* one turn of the list comprehension over args.sumstats; sumstat_dfs is the
\* list being built, dropped when a turn raises
FilterSumstats ==
    /\ pc = "filter"
    /\ LET i == Len(sumstat_dfs) + 1
           r == filter_sumstats(args.sumstats[i], args.sep[i], args.snp[i],
                                args.p[i], args.chr[i], args.bp[i], args.chr2use)
       IN  IF r.ok
           THEN /\ sumstat_dfs' = Append(sumstat_dfs, r.val)
                /\ pc' = IF i = Len(args.sumstats) THEN "select" ELSE "filter"
                /\ exc' = exc
           ELSE /\ sumstat_dfs' = <<>>
                /\ Fail(r.exc)
    /\ UNCHANGED <<args, fs, dfs2plot, chr_df, mapped, out_written>>

\* args.outlined[i], ..., args.annot[i] are read before get_df2plot is called
Df2plotCall(i) ==
    IF \E k \in 1..Len(FileOpts) : Len(args[FileOpts[k]]) < i
    THEN {Raise("IndexError_option")}
    ELSE get_df2plot(sumstat_dfs[i], args.outlined[i], args.bold[i], args.lead[i],
                     args.indep[i], args.annot[i], args.downsample_frac[i])

\* one turn of the list comprehension over sumstat_dfs; dfs2plot is the list
\* being built, dropped when a turn raises
GetDf2plot ==
    /\ pc = "select"
    /\ \E r \in Df2plotCall(Len(dfs2plot) + 1) :
          IF r.ok
          THEN /\ dfs2plot' = Append(dfs2plot, r.val)
               /\ pc' = IF Len(dfs2plot) + 1 = Len(sumstat_dfs)
                        THEN "layout" ELSE "select"
               /\ exc' = exc
          ELSE /\ dfs2plot' = <<>>
               /\ Fail(r.exc)
    /\ UNCHANGED <<args, fs, sumstat_dfs, chr_df, mapped, out_written>>

GetChrDf ==
    /\ pc = "layout"
    /\ LET r == get_chr_df(dfs2plot, args.between_chr_gap, args.chr2use)
       IN  IF r.ok
           THEN /\ chr_df' = r.val
                /\ pc' = "coords"
                /\ exc' = exc
           ELSE /\ chr_df' = chr_df
                /\ Fail(r.exc)
    /\ UNCHANGED <<args, fs, sumstat_dfs, dfs2plot, mapped, out_written>>

\* one turn of the loop over dfs2plot
AddCoords ==
    /\ pc = "coords"
    /\ LET i == mapped + 1
           r == add_coords(dfs2plot[i], chr_df)
       IN  IF r.ok
           THEN /\ dfs2plot' = [dfs2plot EXCEPT ![i] = r.val]
                /\ mapped' = i
                /\ pc' = IF i = Len(dfs2plot) THEN "plot" ELSE "coords"
                /\ exc' = exc
           ELSE /\ UNCHANGED <<dfs2plot, mapped>>
                /\ Fail(r.exc)
    /\ UNCHANGED <<args, fs, sumstat_dfs, chr_df, out_written>>

\* the right x limit: start + rel_size of the last chromosome + 0.1
XLimRight(layout) ==
    FAdd(FAdd(layout[Len(layout)].start, layout[Len(layout)].rel_size), Num(1, 10))

\* df["log10p"].max(): nan for a table without rows
Log10pMax(df) ==
    IF df = <<>> THEN NaN ELSE Int2F(SetMax({df[j].log10p : j \in 1..Len(df)}))

RECURSIVE PyMax(_, _)
\* Python's max of the first i elements of x: a later element replaces the
\* greatest so far only when it compares greater, so that a nan that comes
\* first stays
PyMax(x, i) ==
    IF i = 1 THEN x[1]
    ELSE LET y == PyMax(x, i - 1) IN IF FLt(y, x[i]) THEN x[i] ELSE y

\* y_up before max(y_up, -np.log10(args.p_thresh)) and the scaling by 1.05,
\* which both keep a nan
YUp(dfs) == PyMax([i \in 1..Len(dfs) |-> Log10pMax(dfs[i])], Len(dfs))

\* the drawing up to plt.savefig: args.transparency[i] is read for every table;
\* ax.set_xlim, and ax.set_ylim after it, raise on a nan or inf limit in the
\* versions of matplotlib that check the limits
PlotOutcomes ==
    IF Len(args.transparency) < Len(dfs2plot) THEN {Raise("IndexError_option")}
    ELSE IF XLimRight(chr_df).k # "num" THEN {Raise("ValueError_xlim"), Ok(<<>>)}
    ELSE IF YUp(dfs2plot).k # "num" THEN {Raise("ValueError_ylim"), Ok(<<>>)}
    ELSE {Ok(<<>>)}

MakePlot ==
    /\ pc = "plot"
    /\ \E r \in PlotOutcomes :
          IF r.ok
          THEN /\ out_written' = TRUE
               /\ pc' = "done"
               /\ exc' = exc
          ELSE /\ out_written' = out_written
               /\ Fail(r.exc)
    /\ UNCHANGED <<args, fs, sumstat_dfs, dfs2plot, chr_df, mapped>>

Next == ProcessArgs \/ FilterSumstats \/ GetDf2plot \/ GetChrDf \/ AddCoords \/ MakePlot

(***************************************************************************)
(* The command lines and files of Spec.                                    *)
(***************************************************************************)
\* the largest number of sumstat files on the command line
MaxN == 3

P(e) == [kind |-> "pos", e |-> e]

PNaN == [kind |-> "nan", e |-> 0]

PZero == [kind |-> "zero", e |-> 0]

PNeg == [kind |-> "neg", e |-> 0]

Variant(id, chr, bp, pval) == [id |-> id, chr |-> chr, bp |-> bp, pval |-> pval]

DefaultCols == [snp |-> "SNP", p |-> "PVAL", chr |-> "CHR", bp |-> "BP"]

MainFS ==
    "a.tsv" :> [kind |-> "sumstats", sep |-> "\t", cols |-> DefaultCols,
                rows |-> <<Variant(3, "1", 100, P(1)), Variant(1, "1", 300, P(2)),
                           Variant(2, "2", 50, P(1)), Variant(4, "2", 70, PNaN),
                           Variant(5, "1", 10, PZero), Variant(6, "X", 5, P(3)),
                           Variant(7, "2", 20, PNeg)>>]
    @@ "c.tsv" :> [kind |-> "sumstats", sep |-> "\t",
                   cols |-> [DefaultCols EXCEPT !.snp = "ID"],
                   rows |-> <<Variant(1, "2", 40, P(1)), Variant(8, "3", 90, P(0))>>]
    @@ "nofile.tsv" :> [kind |-> "missing"]
    @@ "ids.txt" :> [kind |-> "ids", rows |-> <<1, 9>>]
    @@ "annot.txt" :> [kind |-> "annot",
                       rows |-> <<[snp |-> 1, label |-> "geneA"],
                                  [snp |-> 3, label |-> "geneC"]>>]
    @@ "lead.tsv" :> [kind |-> "lead",
                      rows |-> <<[LEAD_SNP |-> 2, is_locus_lead |-> TRUE],
                                 [LEAD_SNP |-> 3, is_locus_lead |-> FALSE]>>]
    @@ "indep.tsv" :> [kind |-> "indep", rows |-> <<2, 3>>]
    @@ "nofile.txt" :> [kind |-> "missing"]

SumstatNames == {"a.tsv", "c.tsv", "nofile.tsv"}

\* the defaults of parse_args (the options of the figure left out)
DefaultArgs ==
    [sumstats |-> <<>>, sep |-> <<"\t">>, snp |-> <<"SNP">>, chr |-> <<"CHR">>,
     bp |-> <<"BP">>, p |-> <<"PVAL">>, outlined |-> <<"NA">>, bold |-> <<"NA">>,
     annot |-> <<"NA">>, lead |-> <<"NA">>, indep |-> <<"NA">>,
     transparency |-> <<Int2F(1)>>, downsample_frac |-> <<Num(1, 200)>>,
     chr2use |-> <<[kind |-> "range", lo |-> 1, hi |-> 22]>>,
     between_chr_gap |-> Num(1, 10)]

\* the values an option is given on the command lines of Spec
OptValues(o) ==
    CASE o = "sep" -> {"\t", ","}
      [] o = "snp" -> {"SNP", "ID"}
      [] o = "chr" -> {"CHR", "CHROM"}
      [] o = "bp" -> {"BP", "POS"}
      [] o = "p" -> {"PVAL", "P"}
      [] o \in {"outlined", "bold"} -> {"NA", "ids.txt", "nofile.txt", "annot.txt"}
      [] o = "lead" -> {"NA", "lead.tsv", "ids.txt", "nofile.txt"}
      [] o = "indep" -> {"NA", "indep.tsv", "ids.txt", "nofile.txt"}
      [] o = "annot" -> {"NA", "annot.txt", "ids.txt", "nofile.txt"}
      [] o = "transparency" -> {Int2F(1), Num(1, 2)}
      [] o = "downsample_frac" -> {Num(1, 200), Int2F(1), NaN}

Chr2useArgs ==
    {<<[kind |-> "range", lo |-> 1, hi |-> 2], [kind |-> "label", label |-> "X"]>>,
     <<[kind |-> "label", label |-> "2"], [kind |-> "label", label |-> "1"]>>,
     <<[kind |-> "bad"]>>}

\* the values of --downsample-frac on the command lines of Spec
FracArgs == {<<Num(1, 200)>>, <<Int2F(1)>>, <<Num(1, 200), Int2F(1)>>}

\* a command line: the sumstat files, a --downsample-frac, and one more option,
\* given count times the same value (given is [opt, count, val]) or a --chr2use
\* (given is [opt |-> "chr2use", val])
CommandLine(files, frac, given) ==
    LET base == [DefaultArgs EXCEPT !.sumstats = files, !.downsample_frac = frac]
    IN  IF given.opt = "chr2use"
        THEN [base EXCEPT !.chr2use = given.val]
        ELSE [base EXCEPT ![given.opt] = [j \in 1..given.count |-> given.val]]

Init ==
    /\ pc = "process_args"
    /\ \E n \in 1..MaxN, frac \in FracArgs :
         \E files \in [1..n -> SumstatNames] :
            \/ \E c \in Chr2useArgs :
                  args = CommandLine(files, frac, [opt |-> "chr2use", val |-> c])
            \/ \E o \in ListOpts \ {"sumstats"}, count \in 1..(MaxN + 1) :
                  \E v \in OptValues(o) :
                     args = CommandLine(files, frac,
                                        [opt |-> o, count |-> count, val |-> v])
    /\ fs = MainFS
    /\ sumstat_dfs = <<>>
    /\ dfs2plot = <<>>
    /\ chr_df = <<>>
    /\ mapped = 0
    /\ out_written = FALSE
    /\ exc = NoExc

Spec == Init /\ [][Next]_vars

(***************************************************************************)
(* SpecSelect: get_df2plot on every small filtered table, with every       *)
(* choice of the id and annotation files below.                            *)
(***************************************************************************)
\* the most rows of a filtered table
MaxRows == 2

\* the most rows of an annotation file
MaxAnnot == 2

\* the ids of the filtered tables
SnpIds == {1, 2, 10}

\* the ids of the annotation files
AnnotIds == {1, 2, 3}

\* -log10 of the p-values of a filtered table: p = 1, 0.1
PExps == {0, 1}

Labels == <<"geneA", "geneB", "geneC", "geneD">>

\* the sequences of distinct elements of S of length at most maxlen
DistinctSeqs(S, maxlen) ==
    UNION {{q \in [1..k -> S] : \A a, b \in 1..k : a # b => q[a] # q[b]} :
           k \in 0..maxlen}

\* the filtered tables: distinct ids in any order, positive p-values
FilteredTables ==
    UNION {{[j \in 1..Len(ix) |-> Variant(ix[j], "1", 100 * ix[j], P(e[j]))] :
              e \in [1..Len(ix) -> PExps]} :
           ix \in DistinctSeqs(SnpIds, MaxRows)}

NA == [kind |-> "NA"]

OutlinedChoices == {NA, [kind |-> "ids", rows |-> <<1>>],
                    [kind |-> "ids", rows |-> <<10, 3>>]}

BoldChoices == {NA, [kind |-> "ids", rows |-> <<2, 1>>]}

LeadChoices == {NA, [kind |-> "lead",
                     rows |-> <<[LEAD_SNP |-> 10, is_locus_lead |-> TRUE],
                                [LEAD_SNP |-> 1, is_locus_lead |-> FALSE]>>]}

IndepChoices == {NA, [kind |-> "indep", rows |-> <<10>>]}

\* the annotation files: distinct ids in any order, the k-th with the k-th label
AnnotChoices ==
    {NA} \cup {[kind |-> "annot",
                rows |-> [j \in 1..Len(ix) |-> [snp |-> ix[j], label |-> Labels[j]]]] :
               ix \in DistinctSeqs(AnnotIds, MaxAnnot) \ {<<>>}}

\* the decimals given as --downsample-frac, as <<n, d>> for n/d
FracLiterals == {<<1, 200>>, <<1, 2>>, <<1, 1>>, <<-1, 2>>}

SelectFracs == {Num(l[1], l[2]) : l \in FracLiterals} \cup {NaN, Inf(1)}

\* a table of 50 rows, 28 of them with p = 0.1 and 22 with p = 1, and the
\* fraction 0.58 for it
SparseTable == [j \in 1..50 |-> Variant(j, "1", 100 * j, P(IF j <= 28 THEN 1 ELSE 0))]

SparseFrac == <<58, 100>>

ArgOf(choice, fname) == IF choice.kind = "NA" THEN "NA" ELSE fname

FileOf(choice) == IF choice.kind = "NA" THEN [kind |-> "missing"] ELSE choice

SelectStart(df, o, b, l, i, a, f) ==
    /\ pc = "select"
    /\ args = [DefaultArgs EXCEPT
                 !.sumstats = <<"sumstats.tsv">>,
                 !.outlined = <<ArgOf(o, "outlined.txt")>>,
                 !.bold = <<ArgOf(b, "bold.txt")>>,
                 !.lead = <<ArgOf(l, "lead.tsv")>>,
                 !.indep = <<ArgOf(i, "indep.tsv")>>,
                 !.annot = <<ArgOf(a, "annot.txt")>>,
                 !.downsample_frac = <<f>>,
                 !.chr2use = <<"1">>]
    /\ fs = "sumstats.tsv" :> [kind |-> "sumstats", sep |-> "\t",
                               cols |-> DefaultCols, rows |-> df]
            @@ "outlined.txt" :> FileOf(o) @@ "bold.txt" :> FileOf(b)
            @@ "lead.tsv" :> FileOf(l) @@ "indep.tsv" :> FileOf(i)
            @@ "annot.txt" :> FileOf(a)
    /\ sumstat_dfs = <<df>>
    /\ dfs2plot = <<>>
    /\ chr_df = <<>>
    /\ mapped = 0
    /\ out_written = FALSE
    /\ exc = NoExc

InitSelect ==
    \/ \E df \in FilteredTables, o \in OutlinedChoices, b \in BoldChoices,
          l \in LeadChoices, i \in IndepChoices, a \in AnnotChoices, f \in SelectFracs :
           SelectStart(df, o, b, l, i, a, f)
    \/ SelectStart(SparseTable, NA, NA, NA, NA, NA, Num(SparseFrac[1], SparseFrac[2]))

SpecSelect == InitSelect /\ [][GetDf2plot]_vars

(***************************************************************************)
(* SpecLayout: get_chr_df and add_coords on every choice of a few selected *)
(* variants, dealt to MaxSets tables.                                      *)
(***************************************************************************)
\* the number of selected tables
MaxSets == 2

\* the most selected variants in all the tables together
MaxSelected == 5

\* the (chromosome, position) pairs a selected variant is drawn from
Loci == <<[chr |-> "1", bp |-> 1], [chr |-> "1", bp |-> 4], [chr |-> "1", bp |-> 1000],
          [chr |-> "2", bp |-> 1], [chr |-> "2", bp |-> 500],
          [chr |-> "X", bp |-> 1], [chr |-> "X", bp |-> 3]>>

Gaps == {Int2F(0), Num(1, 10)}

ChrOrders == {<<"1", "2", "X">>, <<"2", "X", "1">>, <<"X", "1">>}

Selected(id, locus) ==
    [id |-> id, chr |-> locus.chr, bp |-> locus.bp, pval |-> P(1),
     outlined |-> FALSE, bold |-> FALSE, annot |-> ""]

\* the table of the variants at the loci numbered in S, sorted by id
TableOf(S) == [j \in 1..Cardinality(S) |-> Selected(SortedSeq(S)[j], Loci[SortedSeq(S)[j]])]

\* the choices of at most MaxSelected loci
Selections == {S \in SUBSET (1..Len(Loci)) : Cardinality(S) <= MaxSelected}

\* the table that holds the variant at locus j when the loci are dealt to the
\* tables in turn, the deal starting after table t
TableAt(j, t) == ((j + t) % MaxSets) + 1

InitLayout ==
    \E S \in Selections, t \in 0..(MaxSets - 1), gap \in Gaps, order \in ChrOrders :
        /\ \A x \in S : Loci[x].chr \in Range(order)
        /\ pc = "layout"
        /\ args = [DefaultArgs EXCEPT
                     !.sumstats = [i \in 1..MaxSets |-> "sumstats.tsv"],
                     !.sep = [i \in 1..MaxSets |-> "\t"],
                     !.snp = [i \in 1..MaxSets |-> "SNP"],
                     !.chr = [i \in 1..MaxSets |-> "CHR"],
                     !.bp = [i \in 1..MaxSets |-> "BP"],
                     !.p = [i \in 1..MaxSets |-> "PVAL"],
                     !.outlined = [i \in 1..MaxSets |-> "NA"],
                     !.bold = [i \in 1..MaxSets |-> "NA"],
                     !.annot = [i \in 1..MaxSets |-> "NA"],
                     !.lead = [i \in 1..MaxSets |-> "NA"],
                     !.indep = [i \in 1..MaxSets |-> "NA"],
                     !.transparency = [i \in 1..MaxSets |-> Int2F(1)],
                     !.downsample_frac = [i \in 1..MaxSets |-> Int2F(1)],
                     !.chr2use = order,
                     !.between_chr_gap = gap]
        /\ fs = "sumstats.tsv" :> [kind |-> "sumstats", sep |-> "\t",
                                   cols |-> DefaultCols, rows |-> <<>>]
        /\ sumstat_dfs = [i \in 1..MaxSets |-> <<>>]
        /\ dfs2plot = [i \in 1..MaxSets |-> TableOf({j \in S : TableAt(j, t) = i})]
        /\ chr_df = <<>>
        /\ mapped = 0
        /\ out_written = FALSE
        /\ exc = NoExc

SpecLayout == InitLayout /\ [][GetChrDf \/ AddCoords]_vars

(***************************************************************************)
(* Claims about get_df2plot, checked under SpecSelect.  The inputs are     *)
(* read from the files and the filtered table.                             *)
(***************************************************************************)
SelectActed == pc # "select"

Returned == pc = "layout"

TableIds == {sumstat_dfs[1][j].id : j \in 1..Len(sumstat_dfs[1])}

Given(opt) == args[opt][1] # "NA"

RowsGiven(opt) == IF Given(opt) THEN fs[args[opt][1]].rows ELSE <<>>

OutlinedGiven ==
    Range(RowsGiven("outlined"))
    \cup {r.LEAD_SNP : r \in {x \in Range(RowsGiven("lead")) : x.is_locus_lead}}

BoldGiven == Range(RowsGiven("bold")) \cup Range(RowsGiven("indep"))

AnnotGiven == {r.snp : r \in Range(RowsGiven("annot"))}

KeptIds == {dfs2plot[1][j].id : j \in 1..Len(dfs2plot[1])}

\* the fraction given is in (0, 1]
FracInUnit ==
    FLt(Zero, args.downsample_frac[1]) /\ FLe(args.downsample_frac[1], Int2F(1))

\* floor(f * R) for the decimal f given as --downsample-frac and the R rows of
\* the filtered table, in exact arithmetic
FloorFracRows ==
    LET l == CHOOSE x \in FracLiterals \cup {SparseFrac} :
                 Num(x[1], x[2]) = args.downsample_frac[1]
    IN  (l[1] * Len(sumstat_dfs[1])) \div l[2]

\* int(f * R), the size of the sample drawn
SampledRows == SampleSize(sumstat_dfs[1], args.downsample_frac[1]).val

\* C1 (as claimed): once get_df2plot has run, no error came from the
\* annotation (ids absent from the table are dropped silently), every annotated
\* id of the table is in the selected table with the label paired with it in
\* the annotation file, and every other selected variant has the empty label.
C1_AnnotKeepsPairs ==
    SelectActed =>
        /\ ~(pc = "failed" /\ exc.type = "ValueError_setitem")
        /\ Returned =>
              /\ \A r \in Range(RowsGiven("annot")) :
                    r.snp \in TableIds =>
                       \E j \in 1..Len(dfs2plot[1]) :
                          /\ dfs2plot[1][j].id = r.snp
                          /\ dfs2plot[1][j].annot = r.label
              /\ \A j \in 1..Len(dfs2plot[1]) :
                    dfs2plot[1][j].id \notin AnnotGiven => dfs2plot[1][j].annot = ""

\* C4 (as claimed): with no outlined, bold, lead, independent or annotation
\* file and a fraction f in (0, 1], get_df2plot on a filtered table of R rows
\* (stated here for R >= 1) completes and returns exactly floor(f * R) rows
\* with distinct ids.
C4_ExactSampleSize ==
    (/\ SelectActed
     /\ FracInUnit
     /\ Len(sumstat_dfs[1]) >= 1
     /\ \A k \in 1..Len(FileOpts) : ~Given(FileOpts[k])) =>
        /\ Returned
        /\ Len(dfs2plot[1]) = FloorFracRows
        /\ Cardinality(KeptIds) = Len(dfs2plot[1])

\* C8: the ids of the table get_df2plot returns are, without duplicates, the
\* outlined and lead ids, the bold and independent ids and the annotated ids
\* that the input table has, together with a sample of n ids of the input
\* table, n = int(f * R) as line 208 computes it (a sample S of n ids with
\* kept = forced \cup S exists exactly when kept \ forced has at most n ids and
\* kept at least n); outlined is true exactly on the first set, bold exactly
\* on the second.
C8_KeptIds ==
    Returned =>
        LET forced == (OutlinedGiven \cup BoldGiven \cup AnnotGiven) \cap TableIds
        IN  /\ Cardinality(KeptIds) = Len(dfs2plot[1])
            /\ KeptIds \subseteq TableIds
            /\ forced \subseteq KeptIds
            /\ Cardinality(KeptIds \ forced) <= SampledRows
            /\ SampledRows <= Cardinality(KeptIds)
            /\ \A j \in 1..Len(dfs2plot[1]) :
                  /\ dfs2plot[1][j].outlined <=> dfs2plot[1][j].id \in OutlinedGiven
                  /\ dfs2plot[1][j].bold <=> dfs2plot[1][j].id \in BoldGiven

\* a returned table with an outlined row, a bold row and a row that is only
\* sampled, from files that also name ids the input table does not have
C8_Witness ==
    /\ Returned
    /\ (OutlinedGiven \cup AnnotGiven) \ TableIds # {}
    /\ \E j \in 1..Len(dfs2plot[1]) : dfs2plot[1][j].outlined
    /\ \E j \in 1..Len(dfs2plot[1]) : dfs2plot[1][j].bold
    /\ \E j \in 1..Len(dfs2plot[1]) :
          /\ ~dfs2plot[1][j].outlined
          /\ ~dfs2plot[1][j].bold
          /\ dfs2plot[1][j].id \notin AnnotGiven

(***************************************************************************)
(* Claims about get_chr_df and add_coords, checked under SpecLayout.       *)
(***************************************************************************)
LaidOut == chr_df # <<>>

\* the span of the chromosome at index 0 is not zero
RefSpanPositive == chr_df[1].max > chr_df[1].min

\* the positions selected on chromosome c in all the tables
PositionsOn(c) ==
    {r.bp : r \in {x \in UNION {Range(dfs2plot[i]) : i \in 1..Len(dfs2plot)} : x.chr = c}}

\* a + b <= c for finite floats, the sum not rounded
SumLe(a, b, c) == ExactSum(ExactSum(a, b), FNegate(c)).s <= 0

\* C2 (as claimed, for a reference span that is not zero): every variant that
\* add_coords has mapped has x_coord = (position - min of its chromosome) /
\* (max - min of the chromosome at index 0) + start of its chromosome, so
\* that the variant at a chromosome's max position is at start + rel_size.
C2_XCoordByRefUnit ==
    (LaidOut /\ RefSpanPositive) =>
        \A i \in 1..mapped : \A j \in 1..Len(dfs2plot[i]) :
            LET r == dfs2plot[i][j]
                c == Loc(chr_df, r.chr)
                ref == chr_df[1].max - chr_df[1].min
            IN  /\ FEq(r.x_coord, FAdd(FDiv(r.bp - c.min, ref), c.start))
                /\ r.bp = c.max => FEq(r.x_coord, FAdd(c.start, c.rel_size))

\* C6 (as claimed, for a reference span that is not zero): in every layout
\* get_chr_df returns, for every index i > 0,
\* start(c_i) >= start(c_{i-1}) + rel_size(c_{i-1}), the sum taken exactly:
\* no chromosome starts before the end of the one before it.  (The claim's
\* start(c_i) = rel_size(c_0) + ... + rel_size(c_{i-1}) + gap * i says the
\* same and more for gap >= 0.)
C6_NoOverlap ==
    (LaidOut /\ RefSpanPositive) =>
        \A k \in 2..Len(chr_df) :
            SumLe(chr_df[k - 1].start, chr_df[k - 1].rel_size, chr_df[k].start)

\* C7 (as claimed): the chromosome at index 0 has start = 0 and rel_size = 1,
\* also when it holds a single selected position.
C7_ReferenceUnit ==
    LaidOut => /\ FEq(chr_df[1].start, Zero)
               /\ FEq(chr_df[1].rel_size, Int2F(1))

\* C7 (amended): the chromosome at index 0 has start = 0 and rel_size = 1 when
\* it spans more than one selected position; when it holds a single position
\* its start and rel_size are nan.
C7_ReferenceUnitSpan ==
    LaidOut =>
        IF Cardinality(PositionsOn(chr_df[1].chr)) > 1
        THEN C7_ReferenceUnit
        ELSE chr_df[1].start = NaN /\ chr_df[1].rel_size = NaN

\* a layout whose first chromosome is not the first of the data and spans
\* more than one position, with another chromosome after it
C7_Witness ==
    /\ LaidOut
    /\ chr_df[1].chr = "2"
    /\ Cardinality(PositionsOn("2")) > 1
    /\ Len(chr_df) > 1

\* the example of C9: chromosomes "1" and "2" only, positions from 1 to 1000
\* on chromosome 1 and from 1 to 500 on chromosome 2, the order 1, 2, gap 0.1
C9_Input ==
    /\ LaidOut
    /\ PositionsOn("1") = {1, 1000}
    /\ PositionsOn("2") = {1, 500}
    /\ PositionsOn("X") = {}
    /\ args.chr2use = <<"1", "2", "X">>
    /\ args.between_chr_gap = Num(1, 10)

\* C9 (as claimed): on the example, chr1 has start 0 and rel_size 1, chr2 has
\* start 1.1 and rel_size 0.5.
C9_Example ==
    C9_Input =>
        /\ Len(chr_df) = 2
        /\ chr_df[1].start = Zero /\ chr_df[1].rel_size = Int2F(1)
        /\ chr_df[2].start = Num(11, 10) /\ chr_df[2].rel_size = Num(1, 2)

\* C9 (amended): on the example, chr1 has start 0 and rel_size 1, chr2 has
\* start 1.1 and rel_size 499/999 (the floats nearest them), a rel_size
\* between 0.4994 and 0.4995.
C9_ExampleExact ==
    C9_Input =>
        /\ Len(chr_df) = 2
        /\ chr_df[1].chr = "1" /\ chr_df[2].chr = "2"
        /\ chr_df[1].start = Zero /\ chr_df[1].rel_size = Int2F(1)
        /\ chr_df[2].start = Num(11, 10) /\ chr_df[2].rel_size = FDiv(499, 999)
        /\ FLt(Num(4994, 10000), chr_df[2].rel_size)
        /\ FLt(chr_df[2].rel_size, Num(4995, 10000))

\* the example, split over the tables
C9_Witness == C9_Input /\ \A i \in 1..Len(dfs2plot) : Len(dfs2plot[i]) >= 1

\* C10 (as claimed, for a reference span that is not zero): in every layout
\* the start offsets are strictly increasing with the index and every rel_size
\* is strictly positive, also with gap = 0 and with chromosomes of a single
\* selected position.
C10_StrictlyIncreasing ==
    (LaidOut /\ RefSpanPositive) =>
        /\ \A k \in 1..Len(chr_df) : FLt(Zero, chr_df[k].rel_size)
        /\ \A k \in 2..Len(chr_df) : FLt(chr_df[k - 1].start, chr_df[k].start)

(***************************************************************************)
(* Claims about process_args and the order of __main__, checked under Spec.*)
(***************************************************************************)
\* process_args has returned without raising
Accepted == pc # "process_args" /\ ~(pc = "failed" /\ exc.at = "process_args")

\* no call of the pipeline after process_args has started
NothingProcessed ==
    /\ exc.at = "process_args"
    /\ sumstat_dfs = <<>>
    /\ dfs2plot = <<>>
    /\ chr_df = <<>>
    /\ mapped = 0

\* a file named on the command line does not exist
AnyFileMissing ==
    \/ \E j \in 1..Len(args.sumstats) : fs[args.sumstats[j]].kind = "missing"
    \/ \E o \in {"outlined", "bold", "lead", "indep", "annot"} :
          \E j \in 1..Len(args[o]) :
             args[o][j] # "NA" /\ fs[args[o][j]].kind = "missing"

\* C3 (as claimed): process_args accepts a command line only when every
\* list-type option has one value (broadcast to n) or n values, so that after
\* it every list-type option has exactly n values.
C3_CountsChecked ==
    Accepted => \A o \in ListOpts : Len(args[o]) = Len(args.sumstats)

\* C5 (as claimed): a run that fails because of a missing file, a malformed
\* file or column, or a mismatched option count has failed in process_args,
\* before any table was filtered, and has not written the image.
C5_FailFast ==
    (pc = "failed" /\ exc.type \in MissingFileExc \cup MalformedExc \cup CountExc) =>
        /\ NothingProcessed
        /\ ~out_written

\* C5 (amended): a run with a missing input file, or with a count other than
\* 1 or n for --sep, --snp, --chr, --bp, --p or --downsample-frac, fails in
\* process_args before any processing step has started; no failing run, at
\* whatever step it fails, has written the image.
C5_FailFastChecked ==
    /\ pc = "failed" => ~out_written
    /\ (/\ pc # "process_args"
        /\ \/ AnyFileMissing
           \/ \E o \in CheckedOpts : Len(args[o]) \notin {1, Len(args.sumstats)})
       => pc = "failed" /\ NothingProcessed

\* a run of several sumstat files, the first of them readable, that failed
\* for a missing file
C5_Witness ==
    /\ pc = "failed"
    /\ AnyFileMissing
    /\ Len(args.sumstats) > 1
    /\ fs[args.sumstats[1]].kind = "sumstats"

====
